---- MODULE Spec2Model ----
(***************************************************************************)
(* The mileage-based access-tier engine of the district run repository:    *)
(* the activities / mileage_summary / drop_access tables with their        *)
(* triggers, the SQL functions recalculate_user_mileage and                *)
(* grant_drop_access_to_qualifying_users, and the sync-strava-activities   *)
(* edge function (src/unnamed/part_001) that imports activities.           *)
(*                                                                         *)
(* Time is counted in ticks; a calendar month is TicksPerMonth ticks and a *)
(* calendar year MonthsPerYear months.  Distances in miles are counted in  *)
(* hundredths of a mile (decimal with two places), coordinates in          *)
(* hundredths of a degree.                                                 *)
(***************************************************************************)
EXTENDS Integers, Sequences, FiniteSets, Bags, TLC

VARIABLES
  now,              \* wall clock, in ticks
  users,            \* table users: user id -> credential columns and last_synced_at
  strava,           \* the provider's side of each athlete's credentials
  activities,       \* table activities, a bag of rows
  mileage_summary,  \* table mileage_summary: user id -> row, for the users that have one
  drop_access,      \* table drop_access, a bag of rows
  sync,             \* sync-strava-activities invocations: process -> local state
  grant,            \* grant_drop_access_to_qualifying_users calls: process -> local state
  synced,           \* history of the sync invocations (see SyncHistory)
  granted,          \* history of the grant calls (see GrantHistory)
  recalculated,     \* history of the recalculations (see RecalcHistory)
  oauth,            \* strava-oauth invocations: process -> local state
  eval,             \* one evaluation of a function: its arguments and its result
  recalc            \* recalculate_user_mileage calls between their reading and
                    \* their writing: process -> local state

vars == <<now, users, strava, activities, mileage_summary, drop_access, sync, grant,
          synced, granted, recalculated, oauth, eval, recalc>>

----------------------------------------------------------------------------
\* Scale of the model

TicksPerMonth == 2
MonthsPerYear == 12
StartTime == 23
MaxTime == 25
TokenLife == 1
MaxSerial == 3
\* per_page=200 of the activity listing, scaled to the size of the catalogue
PerPage == 3
\* the 90 days of the first-sync lookback, in months
LookbackMonths == 3

NULL == 0 - 9999

Users == {"u1", "u2"}
SyncProcs == {"s1", "s2"}
GrantProcs == {"g1", "g2"}

----------------------------------------------------------------------------
\* The provider's activities (interface StravaActivity).  start_latlng is
\* <<>> for null, else <<latitude, longitude>>; uploaded is the tick in which
\* the athlete uploaded the activity: the listing holds it from the next tick.

Catalogue ==
  { [id |-> 101, athlete |-> "u1", type |-> "Run", sport_type |-> "Run",
     start_date |-> 22, uploaded |-> 22, distance |-> 162000,
     start_latlng |-> <<3890, -7703>>],
    [id |-> 102, athlete |-> "u1", type |-> "Run", sport_type |-> "TrailRun",
     start_date |-> 24, uploaded |-> 24, distance |-> 81000,
     start_latlng |-> <<3880, -7750>>],
    [id |-> 103, athlete |-> "u1", type |-> "TrailRun", sport_type |-> "TrailRun",
     start_date |-> 24, uploaded |-> 24, distance |-> 162000,
     start_latlng |-> <<3920, -7690>>],
    [id |-> 104, athlete |-> "u1", type |-> "VirtualRun", sport_type |-> "VirtualRun",
     start_date |-> 24, uploaded |-> 24, distance |-> 40000,
     start_latlng |-> <<>>],
    [id |-> 105, athlete |-> "u1", type |-> "Ride", sport_type |-> "Ride",
     start_date |-> 22, uploaded |-> 22, distance |-> 30000,
     start_latlng |-> <<3890, -7703>>],
    [id |-> 106, athlete |-> "u1", type |-> "Run", sport_type |-> "Run",
     start_date |-> 16, uploaded |-> 16, distance |-> 10000,
     start_latlng |-> <<3890, -7703>>],
    [id |-> 107, athlete |-> "u1", type |-> "Run", sport_type |-> "Run",
     start_date |-> 22, uploaded |-> 22, distance |-> 81000,
     start_latlng |-> <<3879, -7703>>],
    [id |-> 108, athlete |-> "u1", type |-> "Run", sport_type |-> "Run",
     start_date |-> 24, uploaded |-> 24, distance |-> 81000,
     start_latlng |-> <<3890, -7703>>],
    [id |-> 301, athlete |-> "u2", type |-> "Run", sport_type |-> "Run",
     start_date |-> 24, uploaded |-> 24, distance |-> 20000,
     start_latlng |-> <<3890, -7703>>],
    [id |-> 302, athlete |-> "u2", type |-> "Run", sport_type |-> "Run",
     start_date |-> 24, uploaded |-> 24, distance |-> 15000,
     start_latlng |-> <<3890, -7703>>],
    [id |-> 303, athlete |-> "u2", type |-> "Run", sport_type |-> "Run",
     start_date |-> 24, uploaded |-> 24, distance |-> 10000,
     start_latlng |-> <<3890, -7703>>],
    [id |-> 401, athlete |-> "a3", type |-> "run", sport_type |-> "run",
     start_date |-> 21, uploaded |-> 21, distance |-> 10000,
     start_latlng |-> <<3890, -7703>>],
    [id |-> 402, athlete |-> "a3", type |-> "Workout", sport_type |-> "Run",
     start_date |-> 21, uploaded |-> 21, distance |-> 10000,
     start_latlng |-> <<3890, -7703>>],
    [id |-> 403, athlete |-> "a3", type |-> "", sport_type |-> "VirtualRun",
     start_date |-> 22, uploaded |-> 22, distance |-> 10000,
     start_latlng |-> <<3890, -7703>>],
    [id |-> 404, athlete |-> "a3", type |-> "Ride", sport_type |-> "Ride",
     start_date |-> 24, uploaded |-> 24, distance |-> 10000,
     start_latlng |-> <<3890, -7703>>],
    [id |-> 405, athlete |-> "a3", type |-> "TrailRun", sport_type |-> "Hike",
     start_date |-> 24, uploaded |-> 24, distance |-> 10000,
     start_latlng |-> <<3890, -7703>>],
    [id |-> 406, athlete |-> "a3", type |-> "TRAILRUN", sport_type |-> "Trailrun",
     start_date |-> 24, uploaded |-> 24, distance |-> 10000,
     start_latlng |-> <<3890, -7703>>] }

\* Table drops: id -> thresholds, in hundredths of a mile (d1: the column
\* defaults 50 / 100 / 150; d2: a basic threshold of 25).
drops ==
  [d \in {"d1", "d2"} |->
     IF d = "d1"
     THEN [required_miles_basic |-> 5000, required_miles_premium |-> 10000,
           required_miles_exclusive |-> 15000]
     ELSE [required_miles_basic |-> 2500, required_miles_premium |-> 10000,
           required_miles_exclusive |-> 15000]]

\* the drops the calls of the concurrent specifications are made for: one
\* stored, one not
DropIds == {"d1", "d0"}

----------------------------------------------------------------------------
\* Calendar

\* a month window that starts at the instant given
date_trunc_none(t) == t

date_trunc_month(t) == t - (t % TicksPerMonth)
date_trunc_year(t) == t - (t % (TicksPerMonth * MonthsPerYear))
minus_one_month(t) == t - TicksPerMonth

----------------------------------------------------------------------------
\* Table activities (src/unnamed/part_002)

\* the box without its edges
is_in_dc_metro_open(lat, lon) ==
  /\ lat > 3880 /\ lat < 3920
  /\ lon > -7750 /\ lon < -7690

is_in_dc_metro(lat, lon) ==
  /\ lat >= 3880 /\ lat <= 3920
  /\ lon >= -7750 /\ lon <= -7690

\* a table without the trigger
leave_dc_metro_area(new) == new

\* BEFORE INSERT OR UPDATE trigger calculate_dc_metro_area
set_dc_metro_area(new) ==
  IF new.start_latitude # NULL /\ new.start_longitude # NULL
  THEN [new EXCEPT !.is_dc_metro_area =
          is_in_dc_metro(new.start_latitude, new.start_longitude)]
  ELSE new

\* the table without its UNIQUE constraint
NoUniqueActivity(table, row) == FALSE

\* strava_activity_id bigint UNIQUE NOT NULL
ActivityConflict(table, row) ==
  \E r \in BagToSet(table) : r.strava_activity_id = row.strava_activity_id

\* INSERT INTO activities: the row after column defaults and the trigger,
\* refused with unique_violation 23505 when the external id is stored.
InsertActivity(table, row) ==
  IF ActivityConflict(table, row)
  THEN [error |-> "23505", table |-> table]
  ELSE [error |-> "", table |-> table (+) SetToBag({set_dc_metro_area(row)})]

----------------------------------------------------------------------------
\* Table mileage_summary
\* (src/supabase/migrations/20260108174244_create_mileage_summary_table.sql,
\*  functions as replaced by 20260113232330_optimize_rls_policies_and_functions.sql)

\* thresholds that belong to the lower tier
calculate_access_tier_above(miles) ==
  IF miles > 15000 THEN "exclusive"
  ELSE IF miles > 10000 THEN "premium"
  ELSE IF miles > 5000 THEN "basic"
  ELSE "none"

calculate_access_tier(miles) ==
  IF miles >= 15000 THEN "exclusive"
  ELSE IF miles >= 10000 THEN "premium"
  ELSE IF miles >= 5000 THEN "basic"
  ELSE "none"

\* a trigger that leaves access_tier as it finds it
keep_access_tier(new, t) == [new EXCEPT !.updated_at = t]

\* BEFORE INSERT OR UPDATE OF current_month_miles trigger set_access_tier
update_access_tier(new, t) ==
  [new EXCEPT !.access_tier = calculate_access_tier(new.current_month_miles),
              !.updated_at = t]

RECURSIVE SumOver(_, _)
SumOver(S, w) ==
  IF S = {} THEN 0
  ELSE LET r == CHOOSE x \in S : TRUE
       IN  w[r] + SumOver(S \ {r}, w)

RECURSIVE MaxOver(_, _)
MaxOver(S, w) ==
  IF S = {} THEN NULL
  ELSE LET r == CHOOSE x \in S : TRUE
           m == MaxOver(S \ {r}, w)
       IN  IF m = NULL \/ w[r] > m THEN w[r] ELSE m

\* The SELECT of recalculate_user_mileage: one row of aggregates over the
\* user's activities, with the window starts taken from now() = t.
MileageSelect(table, p_user_id, t) ==
  LET v_current_month_start == date_trunc_month(t)
      v_current_year_start == date_trunc_year(t)
      v_last_month_start == date_trunc_month(minus_one_month(t))
      v_last_month_end == v_current_month_start
      rows == {r \in BagToSet(table) : r.user_id = p_user_id}
      n(r) == CopiesIn(r, table)
  IN  [user_id |-> p_user_id,
       current_month_miles |->
         SumOver(rows, [r \in rows |->
           IF r.activity_date >= v_current_month_start /\ r.is_dc_metro_area
           THEN n(r) * r.distance_miles ELSE 0]),
       last_month_miles |->
         SumOver(rows, [r \in rows |->
           IF /\ r.activity_date >= v_last_month_start
              /\ r.activity_date < v_last_month_end
              /\ r.is_dc_metro_area
           THEN n(r) * r.distance_miles ELSE 0]),
       current_year_miles |->
         SumOver(rows, [r \in rows |->
           IF r.activity_date >= v_current_year_start /\ r.is_dc_metro_area
           THEN n(r) * r.distance_miles ELSE 0]),
       total_miles |->
         SumOver(rows, [r \in rows |->
           IF r.is_dc_metro_area THEN n(r) * r.distance_miles ELSE 0]),
       total_activities |-> SumOver(rows, [r \in rows |-> n(r)]),
       dc_activities |->
         SumOver(rows, [r \in rows |-> IF r.is_dc_metro_area THEN n(r) ELSE 0]),
       last_activity_date |-> MaxOver(rows, [r \in rows |-> r.activity_date]),
       last_calculated_at |-> t]

\* an upsert that adds the rescan to the distances of the row it finds
UpsertMileageAdding(table, sel, t) ==
  LET inserted == [user_id |-> sel.user_id,
                   current_month_miles |-> sel.current_month_miles,
                   last_month_miles |-> sel.last_month_miles,
                   current_year_miles |-> sel.current_year_miles,
                   total_miles |-> sel.total_miles,
                   total_activities |-> sel.total_activities,
                   dc_activities |-> sel.dc_activities,
                   last_activity_date |-> sel.last_activity_date,
                   access_tier |-> calculate_access_tier(sel.current_month_miles),
                   last_calculated_at |-> sel.last_calculated_at,
                   updated_at |-> t]
      updated == IF sel.user_id \in DOMAIN table
                 THEN [inserted EXCEPT
                         !.current_year_miles = @ + table[sel.user_id].current_year_miles,
                         !.total_miles = @ + table[sel.user_id].total_miles]
                 ELSE inserted
  IN  [u \in DOMAIN table \cup {sel.user_id} |->
         IF u = sel.user_id THEN updated ELSE table[u]]

\* INSERT INTO mileage_summary ... ON CONFLICT (user_id) DO UPDATE SET ...:
\* a new row takes the column default of access_tier and passes the trigger;
\* an existing row has the eight listed columns overwritten and, the SET list
\* naming current_month_miles, passes the trigger as well.
UpsertMileage(table, sel, t) ==
  LET inserted == update_access_tier(
                    [user_id |-> sel.user_id,
                     current_month_miles |-> sel.current_month_miles,
                     last_month_miles |-> sel.last_month_miles,
                     current_year_miles |-> sel.current_year_miles,
                     total_miles |-> sel.total_miles,
                     total_activities |-> sel.total_activities,
                     dc_activities |-> sel.dc_activities,
                     last_activity_date |-> sel.last_activity_date,
                     access_tier |-> "none",
                     last_calculated_at |-> sel.last_calculated_at,
                     updated_at |-> t], t)
      updated == IF sel.user_id \in DOMAIN table
                 THEN update_access_tier(
                        [table[sel.user_id] EXCEPT
                           !.current_month_miles = sel.current_month_miles,
                           !.last_month_miles = sel.last_month_miles,
                           !.current_year_miles = sel.current_year_miles,
                           !.total_miles = sel.total_miles,
                           !.total_activities = sel.total_activities,
                           !.dc_activities = sel.dc_activities,
                           !.last_activity_date = sel.last_activity_date,
                           !.last_calculated_at = t], t)
                 ELSE inserted
  IN  [u \in DOMAIN table \cup {sel.user_id} |->
         IF u = sel.user_id THEN updated ELSE table[u]]

recalculate_user_mileage(p_user_id, t) ==
  UpsertMileage(mileage_summary, MileageSelect(activities, p_user_id, t), t)

----------------------------------------------------------------------------
\* Table drop_access and grant_drop_access_to_qualifying_users
\* (src/supabase/migrations/20260108174318_create_drops_tables.sql, function
\*  as replaced by 20260113232330_optimize_rls_policies_and_functions.sql)

\* the table without its UNIQUE constraint
NoUniqueDropAccess(table, row) == FALSE

\* UNIQUE(drop_id, user_id)
DropAccessConflict(table, row) ==
  \E r \in BagToSet(table) : r.drop_id = row.drop_id /\ r.user_id = row.user_id

\* the insert with ON CONFLICT (drop_id, user_id) DO UPDATE: the new row
\* takes the place of the pair's stored one
OverwriteDropAccess(table, row) ==
  LET kept == {r \in BagToSet(table) :
                 r.drop_id # row.drop_id \/ r.user_id # row.user_id}
  IN  [r \in kept \cup {row} |-> IF r \in kept THEN CopiesIn(r, table) ELSE 1]

\* one row of INSERT INTO drop_access ... ON CONFLICT (drop_id, user_id) DO NOTHING
InsertDropAccess(table, row) ==
  IF DropAccessConflict(table, row) THEN table ELSE table (+) SetToBag({row})

RECURSIVE InsertDropAccessRows(_, _)
InsertDropAccessRows(table, rows) ==
  IF rows = {} THEN table
  ELSE LET r == CHOOSE x \in rows : TRUE
       IN  InsertDropAccessRows(InsertDropAccess(table, r), rows \ {r})

\* the statement without its upper test
GrantTierNoUpper(table, p_drop_id, tier, lo, hi) ==
  LET sel == {u \in DOMAIN mileage_summary :
                mileage_summary[u].current_month_miles >= lo}
      rows == {[drop_id |-> p_drop_id, user_id |-> u, access_tier |-> tier,
                mileage_at_qualification |->
                  mileage_summary[u].current_month_miles] : u \in sel}
  IN  InsertDropAccessRows(table, rows)

\* INSERT INTO drop_access (...) SELECT p_drop_id, user_id, tier,
\* current_month_miles FROM mileage_summary WHERE lo <= current_month_miles
\* [AND current_month_miles < hi]; hi = NULL leaves the upper test out.
GrantTier(table, p_drop_id, tier, lo, hi) ==
  LET sel == {u \in DOMAIN mileage_summary :
                /\ mileage_summary[u].current_month_miles >= lo
                /\ (hi = NULL \/ mileage_summary[u].current_month_miles < hi)}
      rows == {[drop_id |-> p_drop_id, user_id |-> u, access_tier |-> tier,
                mileage_at_qualification |->
                  mileage_summary[u].current_month_miles] : u \in sel}
  IN  InsertDropAccessRows(table, rows)

\* the count as the first statement leaves it: the exclusive rows only
CountExclusiveAccess(table, p_drop_id) ==
  Cardinality({r \in BagToSet(table) :
                 r.drop_id = p_drop_id /\ r.access_tier = "exclusive"})

\* SELECT COUNT(*) FROM drop_access WHERE drop_id = p_drop_id
CountDropAccess(table, p_drop_id) ==
  LET rows == {r \in BagToSet(table) : r.drop_id = p_drop_id}
  IN  SumOver(rows, [r \in rows |-> CopiesIn(r, table)])

NoDrop == [required_miles_basic |-> 0, required_miles_premium |-> 0,
           required_miles_exclusive |-> 0]

\* the rows of a drop
DropRows(table, p_drop_id) == {r \in BagToSet(table) : r.drop_id = p_drop_id}

\* A call between its statements.  result is NULL while it runs, -1 once it
\* raised 'Drop not found', else the count it returned.
NotCalled ==
  [pc |-> "idle", p_drop_id |-> "", v_drop |-> NoDrop, v_granted_count |-> 0,
   result |-> NULL]

AtOrAbove(table, miles) ==
  {u \in DOMAIN table : table[u].current_month_miles >= miles}

Miles(table) == [u \in DOMAIN table |-> table[u].current_month_miles]

\* SELECT * INTO v_drop FROM drops WHERE id = p_drop_id;
\* IF NOT FOUND THEN RAISE EXCEPTION 'Drop not found'
GrantCall(g, p_drop_id) ==
  /\ grant[g].pc = "idle"
  /\ grant' = [grant EXCEPT ![g] =
       IF p_drop_id \notin DOMAIN drops
       THEN [NotCalled EXCEPT !.p_drop_id = p_drop_id, !.result = -1]
       ELSE [NotCalled EXCEPT
               !.pc = "exclusive",
               !.p_drop_id = p_drop_id,
               !.v_drop = drops[p_drop_id]]]
  /\ UNCHANGED <<now, users, strava, activities, mileage_summary, drop_access, sync>>

\* the first INSERT ... SELECT, and the count added to v_granted_count
GrantExclusive(g) ==
  /\ grant[g].pc = "exclusive"
  /\ drop_access' = GrantTier(drop_access, grant[g].p_drop_id, "exclusive",
                              grant[g].v_drop.required_miles_exclusive, NULL)
  /\ grant' = [grant EXCEPT
       ![g].pc = "premium",
       ![g].v_granted_count =
          @ + Cardinality(AtOrAbove(mileage_summary,
                                    grant[g].v_drop.required_miles_exclusive))]
  /\ UNCHANGED <<now, users, strava, activities, mileage_summary, sync>>

\* the second INSERT ... SELECT
GrantPremium(g) ==
  /\ grant[g].pc = "premium"
  /\ drop_access' = GrantTier(drop_access, grant[g].p_drop_id, "premium",
                              grant[g].v_drop.required_miles_premium,
                              grant[g].v_drop.required_miles_exclusive)
  /\ grant' = [grant EXCEPT ![g].pc = "basic"]
  /\ UNCHANGED <<now, users, strava, activities, mileage_summary, sync>>

\* the third INSERT ... SELECT
GrantBasic(g) ==
  /\ grant[g].pc = "basic"
  /\ drop_access' = GrantTier(drop_access, grant[g].p_drop_id, "basic",
                              grant[g].v_drop.required_miles_basic,
                              grant[g].v_drop.required_miles_premium)
  /\ grant' = [grant EXCEPT ![g].pc = "count"]
  /\ UNCHANGED <<now, users, strava, activities, mileage_summary, sync>>

\* SELECT COUNT(*) INTO v_granted_count ...; RETURN v_granted_count
GrantReturn(g) ==
  /\ grant[g].pc = "count"
  /\ LET v_granted_count == CountDropAccess(drop_access, grant[g].p_drop_id)
     IN  grant' = [grant EXCEPT ![g] =
           [NotCalled EXCEPT !.p_drop_id = grant[g].p_drop_id,
                             !.v_drop = grant[g].v_drop,
                             !.v_granted_count = v_granted_count,
                             !.result = v_granted_count]]
  /\ UNCHANGED <<now, users, strava, activities, mileage_summary, drop_access, sync>>


----------------------------------------------------------------------------
\* The provider (the external fitness API)

\* Credentials are opaque to the importer; the provider reads an access
\* token's athlete and expiry off the token it issued.
NoToken == [athlete |-> "", serial |-> 0, expires_at |-> 0]

Token(athlete, serial, expires_at) ==
  [athlete |-> athlete, serial |-> serial, expires_at |-> expires_at]

\* POST /oauth/token, grant_type refresh_token: the response to a refresh
\* token the provider accepts, and the provider's state after it.
TokenResponse(athlete, t) ==
  LET serial == strava[athlete].serial + 1
  IN  [access_token |-> Token(athlete, serial, t + TokenLife),
       refresh_token |-> Token(athlete, serial, 0),
       expires_at |-> t + TokenLife]

\* The provider accepts the refresh token it issued last; one it has
\* replaced since it may still accept or already refuse.
RefreshAccepted(refreshToken, accept) ==
  /\ refreshToken.athlete \in DOMAIN strava
  /\ refreshToken.serial >= 1
  /\ refreshToken.serial <= strava[refreshToken.athlete].serial
  /\ (refreshToken.serial = strava[refreshToken.athlete].serial \/ accept)
  /\ strava[refreshToken.athlete].serial < MaxSerial

AccessAccepted(accessToken, t) ==
  /\ accessToken.athlete \in DOMAIN strava
  /\ accessToken.serial >= 1
  /\ accessToken.serial <= strava[accessToken.athlete].serial
  /\ t < accessToken.expires_at

\* GET /athlete/activities?after=..&per_page=..: what the provider holds of
\* the athlete that started after `after` ...
Held(athlete, after, t) ==
  {a \in Catalogue : a.athlete = athlete /\ a.uploaded < t /\ a.start_date > after}

\* ... oldest first ...
RECURSIVE Oldest(_)
Oldest(S) ==
  IF S = {} THEN <<>>
  ELSE LET a == CHOOSE x \in S : \A y \in S :
                  \/ x.start_date < y.start_date
                  \/ (x.start_date = y.start_date /\ x.id <= y.id)
       IN  <<a>> \o Oldest(S \ {a})

\* ... and no more than one page of it.
Listing(athlete, after, t) ==
  LET all == Oldest(Held(athlete, after, t))
  IN  SubSeq(all, 1, IF Len(all) < PerPage THEN Len(all) ELSE PerPage)

----------------------------------------------------------------------------
\* sync-strava-activities (src/unnamed/part_001)

\* a filter that looks at one of the two kind fields only
IsRunByType(a) ==
  a.type = "Run" \/ a.type = "TrailRun" \/ a.type = "VirtualRun"

IsRun(a) ==
  \/ a.type = "Run" \/ a.sport_type = "Run"
  \/ a.type = "TrailRun" \/ a.sport_type = "TrailRun"
  \/ a.type = "VirtualRun" \/ a.sport_type = "VirtualRun"

\* the hundredths of a mile cut off, not rounded
distanceMilesFloor(meters) ==
  LET hi == meters * 621
      lo == meters * 371
  IN  (hi \div 10000) + (((hi % 10000) * 1000 + lo) \div 10000000)

\* Math.round((activity.distance * 0.000621371) * 100), the hundredths of a
\* mile of a whole number of meters; the product is taken in two parts to
\* stay within 32 bits.
distanceMiles(meters) ==
  LET hi == meters * 621
      lo == meters * 371
  IN  (hi \div 10000) + (((hi % 10000) * 1000 + lo + 5000000) \div 10000000)

\* the object handed to .from("activities").insert
ActivityRow(userId, a) ==
  [user_id |-> userId,
   strava_activity_id |-> a.id,
   activity_type |-> IF a.type # "" THEN a.type ELSE a.sport_type,
   activity_date |-> a.start_date,
   distance_meters |-> a.distance,
   distance_miles |-> distanceMiles(a.distance),
   start_latitude |-> IF a.start_latlng # <<>> THEN a.start_latlng[1] ELSE NULL,
   start_longitude |-> IF a.start_latlng # <<>> THEN a.start_latlng[2] ELSE NULL,
   is_dc_metro_area |-> FALSE]

\* a horizon that is the lookback window whatever is stored
AfterLookback(last_synced_at, t) == t - LookbackMonths * TicksPerMonth

\* user.last_synced_at ? that : Date.now() - 90 days
After(last_synced_at, t) ==
  IF last_synced_at # NULL THEN last_synced_at
  ELSE t - LookbackMonths * TicksPerMonth

NoUser == [strava_access_token |-> NoToken, strava_refresh_token |-> NoToken,
           token_expires_at |-> NULL, connected_at |-> NULL,
           last_synced_at |-> NULL]

NoResponse ==
  [status |-> 0, total |-> 0, inserted |-> 0, skipped |-> 0, error |-> ""]

Response(status, total, inserted, skipped) ==
  [status |-> status, total |-> total, inserted |-> inserted, skipped |-> skipped,
   error |-> ""]

\* new Response(JSON.stringify({ error: message }), { status })
ErrorResponse(status, message) ==
  [Response(status, 0, 0, 0) EXCEPT !.error = message]

NoRefreshData ==
  [access_token |-> NoToken, refresh_token |-> NoToken, expires_at |-> NULL]

Idle ==
  [pc |-> "idle", userId |-> "", user |-> NoUser, accessToken |-> NoToken,
   refreshData |-> NoRefreshData, after |-> NULL,
   runActivities |-> <<>>, i |-> 0, insertedCount |-> 0, skippedCount |-> 0,
   response |-> NoResponse]

\* return new Response(...): the invocation is over and leaves its response.
Return(p, status) ==
  [Idle EXCEPT !.userId = sync[p].userId,
               !.response =
                 IF status = 200
                 THEN Response(200, Len(sync[p].runActivities),
                               sync[p].insertedCount, sync[p].skippedCount)
                 ELSE Response(status, 0, 0, 0)]

\* the invocation is over with a failure: the answer of the catch, or the
\* answer to a response of the provider that is not ok
Fail(p, message) ==
  [Idle EXCEPT !.userId = sync[p].userId,
               !.response = ErrorResponse(500, message)]

\* a handler that does not look at the credential it has read
SyncSelectUserUnchecked(p, userId, ok) ==
  /\ sync[p].pc = "idle"
  /\ LET began == [Idle EXCEPT !.userId = userId]
         user == [strava_access_token |-> users[userId].strava_access_token,
                  strava_refresh_token |-> users[userId].strava_refresh_token,
                  token_expires_at |-> users[userId].token_expires_at,
                  last_synced_at |-> users[userId].last_synced_at]
         read == [began EXCEPT
                    !.user = user,
                    !.accessToken = user.strava_access_token]
     IN  sync' = [sync EXCEPT ![p] =
           IF ~ok \/ userId \notin Users
             THEN [began EXCEPT !.response = ErrorResponse(404, "User not found")]
           ELSE IF now >= user.token_expires_at
             THEN [read EXCEPT !.pc = "refresh"]
           ELSE [read EXCEPT !.pc = "fetch",
                             !.after = After(user.last_synced_at, now)]]
  /\ UNCHANGED <<now, users, strava, activities, mileage_summary, drop_access, grant>>

\* const { data: user, error: userError } = await supabase.from("users")
\* .select(...).maybeSingle(), and the synchronous code up to the next await.
SyncSelectUser(p, userId, ok) ==
  /\ sync[p].pc = "idle"
  /\ LET began == [Idle EXCEPT !.userId = userId]
         user == [strava_access_token |-> users[userId].strava_access_token,
                  strava_refresh_token |-> users[userId].strava_refresh_token,
                  token_expires_at |-> users[userId].token_expires_at,
                  last_synced_at |-> users[userId].last_synced_at]
         read == [began EXCEPT
                    !.user = user,
                    !.accessToken = user.strava_access_token]
     IN  sync' = [sync EXCEPT ![p] =
           IF ~ok \/ userId \notin Users
             THEN [began EXCEPT !.response = ErrorResponse(404, "User not found")]
           ELSE IF \/ user.strava_access_token = NoToken
                   \/ user.strava_refresh_token = NoToken
             THEN [began EXCEPT !.response =
                                  ErrorResponse(400, "User has not connected Strava")]
           ELSE IF now >= user.token_expires_at
             THEN [read EXCEPT !.pc = "refresh"]
           ELSE [read EXCEPT !.pc = "fetch",
                             !.after = After(user.last_synced_at, now)]]
  /\ UNCHANGED <<now, users, strava, activities, mileage_summary, drop_access, grant>>

\* a refresh whose response is taken as it comes: the body of a response
\* that is not ok carries no credential
SyncRefreshUnchecked(p, ok, accept) ==
  /\ sync[p].pc = "refresh"
  /\ LET refreshToken == sync[p].user.strava_refresh_token
         athlete == refreshToken.athlete
     IN  IF ok /\ RefreshAccepted(refreshToken, accept)
         THEN LET refreshData == TokenResponse(athlete, now)
              IN  /\ strava' = [strava EXCEPT ![athlete].serial = @ + 1]
                  /\ sync' = [sync EXCEPT ![p].pc = "persist",
                                          ![p].refreshData = refreshData,
                                          ![p].accessToken = refreshData.access_token]
         ELSE /\ sync' = [sync EXCEPT ![p].pc = "persist",
                                      ![p].refreshData = NoRefreshData,
                                      ![p].accessToken = NoToken]
              /\ UNCHANGED strava
  /\ UNCHANGED <<now, users, activities, mileage_summary, drop_access, grant>>

\* await refreshStravaToken(user.strava_refresh_token, ...): a response that
\* is not ok throws, and the catch answers 500.
SyncRefresh(p, ok, accept) ==
  /\ sync[p].pc = "refresh"
  /\ LET refreshToken == sync[p].user.strava_refresh_token
         athlete == refreshToken.athlete
     IN  IF ok /\ RefreshAccepted(refreshToken, accept)
         THEN LET refreshData == TokenResponse(athlete, now)
              IN  /\ strava' = [strava EXCEPT ![athlete].serial = @ + 1]
                  /\ sync' = [sync EXCEPT ![p].pc = "persist",
                                          ![p].refreshData = refreshData,
                                          ![p].accessToken = refreshData.access_token]
         ELSE /\ sync' = [sync EXCEPT ![p] =
                            Fail(p, "Failed to refresh Strava token")]
              /\ UNCHANGED strava
  /\ UNCHANGED <<now, users, activities, mileage_summary, drop_access, grant>>

\* an update that stores the access credential and its expiry only
SyncPersistAccessOnly(p, ok) ==
  /\ sync[p].pc = "persist"
  /\ users' = IF ok
              THEN [users EXCEPT
                      ![sync[p].userId].strava_access_token =
                         sync[p].refreshData.access_token,
                      ![sync[p].userId].token_expires_at =
                         sync[p].refreshData.expires_at]
              ELSE users
  /\ sync' = [sync EXCEPT ![p].pc = "fetch",
                          ![p].after = After(sync[p].user.last_synced_at, now)]
  /\ UNCHANGED <<now, strava, activities, mileage_summary, drop_access, grant>>

\* await supabase.from("users").update({three credential columns}); its
\* error is not read.  Then `after` is taken.
SyncPersistTokens(p, ok) ==
  /\ sync[p].pc = "persist"
  /\ users' = IF ok
              THEN [users EXCEPT
                      ![sync[p].userId].strava_access_token =
                         sync[p].refreshData.access_token,
                      ![sync[p].userId].strava_refresh_token =
                         sync[p].refreshData.refresh_token,
                      ![sync[p].userId].token_expires_at =
                         sync[p].refreshData.expires_at]
              ELSE users
  /\ sync' = [sync EXCEPT ![p].pc = "fetch",
                          ![p].after = After(sync[p].user.last_synced_at, now)]
  /\ UNCHANGED <<now, strava, activities, mileage_summary, drop_access, grant>>

\* a fetch that takes a response that is not ok for an empty listing
SyncFetchLenient(p, ok) ==
  /\ sync[p].pc = "fetch"
  /\ LET accessToken == sync[p].accessToken
         fetched == Listing(accessToken.athlete, sync[p].after, now)
         runActivities == SelectSeq(fetched, IsRun)
     IN  sync' = [sync EXCEPT ![p] =
           IF ok /\ AccessAccepted(accessToken, now)
           THEN [sync[p] EXCEPT
                   !.pc = IF runActivities = <<>> THEN "stamp" ELSE "insert",
                   !.runActivities = runActivities,
                   !.i = 1]
           ELSE [sync[p] EXCEPT !.pc = "stamp", !.i = 1]]
  /\ UNCHANGED <<now, users, strava, activities, mileage_summary, drop_access, grant>>

\* await fetch(.../athlete/activities?after=${after}&per_page=200) and the
\* filter to runActivities.
SyncFetch(p, ok) ==
  /\ sync[p].pc = "fetch"
  /\ LET accessToken == sync[p].accessToken
         fetched == Listing(accessToken.athlete, sync[p].after, now)
         runActivities == SelectSeq(fetched, IsRun)
     IN  sync' = [sync EXCEPT ![p] =
           IF ok /\ AccessAccepted(accessToken, now)
           THEN [sync[p] EXCEPT
                   !.pc = IF runActivities = <<>> THEN "stamp" ELSE "insert",
                   !.runActivities = runActivities,
                   !.i = 1]
           ELSE Fail(p, "Failed to fetch activities from Strava")]
  /\ UNCHANGED <<now, users, strava, activities, mileage_summary, drop_access, grant>>

\* one turn of the loop: await supabase.from("activities").insert({...}).
\* An insert the store does not carry out (ok = FALSE) comes back with an
\* error other than 23505 and is counted neither way.
SyncInsert(p, ok) ==
  /\ sync[p].pc = "insert"
  /\ LET activity == sync[p].runActivities[sync[p].i]
         res == InsertActivity(activities, ActivityRow(sync[p].userId, activity))
         more == sync[p].i < Len(sync[p].runActivities)
         next == [sync[p] EXCEPT !.i = @ + 1,
                                 !.pc = IF more THEN "insert" ELSE "stamp"]
     IN  IF ~ok
         THEN /\ sync' = [sync EXCEPT ![p] = next]
              /\ UNCHANGED activities
         ELSE IF res.error = "23505"
         THEN /\ sync' = [sync EXCEPT ![p] =
                            [next EXCEPT !.skippedCount = @ + 1]]
              /\ UNCHANGED activities
         ELSE /\ sync' = [sync EXCEPT ![p] =
                            [next EXCEPT !.insertedCount = @ + 1]]
              /\ activities' = res.table
  /\ UNCHANGED <<now, users, strava, mileage_summary, drop_access, grant>>

\* await supabase.from("users").update({ last_synced_at: now }); its error
\* is not read.
SyncStamp(p, ok) ==
  /\ sync[p].pc = "stamp"
  /\ users' = IF ok THEN [users EXCEPT ![sync[p].userId].last_synced_at = now]
              ELSE users
  /\ sync' = [sync EXCEPT ![p].pc = "recalc"]
  /\ UNCHANGED <<now, strava, activities, mileage_summary, drop_access, grant>>

\* a handler that answers the error of the rpc
SyncRecalcStrict(p, ok) ==
  /\ sync[p].pc = "recalc"
  /\ mileage_summary' = IF ok THEN recalculate_user_mileage(sync[p].userId, now)
                        ELSE mileage_summary
  /\ sync' = [sync EXCEPT ![p] =
                IF ok THEN Return(p, 200)
                ELSE Fail(p, "Failed to recalculate mileage")]
  /\ UNCHANGED <<now, users, strava, activities, drop_access, grant>>

\* await supabase.rpc("recalculate_user_mileage", ...); an error is logged;
\* the response is 200 either way.
SyncRecalc(p, ok) ==
  /\ sync[p].pc = "recalc"
  /\ mileage_summary' = IF ok THEN recalculate_user_mileage(sync[p].userId, now)
                        ELSE mileage_summary
  /\ sync' = [sync EXCEPT ![p] = Return(p, 200)]
  /\ UNCHANGED <<now, users, strava, activities, drop_access, grant>>

\* recalculate_user_mileage called on its own
Recalculate(p_user_id) ==
  /\ mileage_summary' = recalculate_user_mileage(p_user_id, now)
  /\ UNCHANGED <<now, users, strava, activities, drop_access, sync, grant>>

\* recalculate_user_mileage as the store runs it beside other statements:
\* the INSERT ... SELECT reads the activities in the snapshot taken when the
\* statement starts, and its ON CONFLICT DO UPDATE writes the values it has
\* computed into the row as it is when the write takes place.
RecalcProcs == {"r1"}

NoSelect == [user_id |-> ""]

NotRecalculating == [pc |-> "idle", sel |-> NoSelect, t |-> NULL]

\* the window starts from now() and the SELECT over the snapshot
RecalcSelect(r, p_user_id) ==
  /\ recalc[r].pc = "idle"
  /\ recalc' = [recalc EXCEPT ![r] =
                 [pc |-> "upsert",
                  sel |-> MileageSelect(activities, p_user_id, now),
                  t |-> now]]
  /\ UNCHANGED <<now, users, strava, activities, mileage_summary, drop_access,
                 sync, grant>>

\* the insert of the selected row, or the update of the row in conflict
RecalcUpsert(r) ==
  /\ recalc[r].pc = "upsert"
  /\ mileage_summary' = UpsertMileage(mileage_summary, recalc[r].sel, recalc[r].t)
  /\ recalc' = [recalc EXCEPT ![r] = NotRecalculating]
  /\ UNCHANGED <<now, users, strava, activities, drop_access, sync, grant>>

----------------------------------------------------------------------------
\* strava-oauth (src/supabase/functions/strava-oauth/index.ts)

OAuthProcs == {"o1"}

\* the authorization codes a request may carry: none, one the provider
\* exchanges, one it refuses
Codes == {"", "good", "bad"}

NotAsked == [pc |-> "idle", userId |-> "", tokenData |-> NoRefreshData, status |-> 0]

\* POST /oauth/token, grant_type authorization_code: the response to a code
\* the provider exchanges for the athlete who authorized
AuthResponse(athlete, t) ==
  LET serial == IF athlete \in DOMAIN strava THEN strava[athlete].serial + 1 ELSE 1
  IN  [access_token |-> Token(athlete, serial, t + TokenLife),
       refresh_token |-> Token(athlete, serial, 0),
       expires_at |-> t + TokenLife]

\* the checks of the request, await fetch(".../oauth/token") and
\* tokenResponse.ok; the athlete who authorized is the user of `state`
OAuthExchange(o, userId, code) ==
  /\ oauth[o].pc = "idle"
  /\ userId \in DOMAIN strava => strava[userId].serial < MaxSerial
  /\ LET asked == NotAsked
         tokenData == AuthResponse(userId, now)
     IN  IF code = ""
         THEN /\ oauth' = [oauth EXCEPT ![o] = [asked EXCEPT !.status = 400]]
              /\ UNCHANGED strava
         ELSE IF code # "good"
         THEN /\ oauth' = [oauth EXCEPT ![o] = [asked EXCEPT !.status = 500]]
              /\ UNCHANGED strava
         ELSE /\ oauth' = [oauth EXCEPT ![o] =
                            [asked EXCEPT !.pc = "update", !.userId = userId,
                                          !.tokenData = tokenData]]
              /\ strava' = [a \in DOMAIN strava \cup {userId} |->
                              IF a = userId
                              THEN [serial |-> tokenData.access_token.serial]
                              ELSE strava[a]]
  /\ UNCHANGED <<now, users, activities, mileage_summary, drop_access, sync, grant>>

\* an update that leaves connected_at as it finds it
OAuthUpdateNoStamp(o, ok) ==
  /\ oauth[o].pc = "update"
  /\ LET userId == oauth[o].userId
         tokenData == oauth[o].tokenData
     IN  /\ users' = IF ok /\ userId \in Users
                     THEN [users EXCEPT
                             ![userId].strava_access_token = tokenData.access_token,
                             ![userId].strava_refresh_token = tokenData.refresh_token,
                             ![userId].token_expires_at = tokenData.expires_at]
                     ELSE users
         /\ oauth' = [oauth EXCEPT ![o] =
                        [NotAsked EXCEPT !.status = IF ok THEN 302 ELSE 500]]
  /\ UNCHANGED <<now, strava, activities, mileage_summary, drop_access, sync, grant>>

\* await supabase.from("users").update({...}).eq("id", userId); an error is
\* thrown and the catch answers 500, else the answer is the redirect 302.
\* The update of a user that is not stored changes no row and is no error.
OAuthUpdate(o, ok) ==
  /\ oauth[o].pc = "update"
  /\ LET userId == oauth[o].userId
         tokenData == oauth[o].tokenData
     IN  /\ users' = IF ok /\ userId \in Users
                     THEN [users EXCEPT
                             ![userId].strava_access_token = tokenData.access_token,
                             ![userId].strava_refresh_token = tokenData.refresh_token,
                             ![userId].token_expires_at = tokenData.expires_at,
                             ![userId].connected_at = now]
                     ELSE users
         /\ oauth' = [oauth EXCEPT ![o] =
                        [NotAsked EXCEPT !.status = IF ok THEN 302 ELSE 500]]
  /\ UNCHANGED <<now, strava, activities, mileage_summary, drop_access, sync, grant>>

----------------------------------------------------------------------------
\* Functions evaluated on their own

\* Dashboard.tsx: the tier above the one of currentMiles, or null
NoNextTier == [name |-> "", miles |-> 0, remaining |-> 0]

getNextTier(currentMiles) ==
  IF currentMiles < 5000
  THEN [name |-> "Basic", miles |-> 5000, remaining |-> 5000 - currentMiles]
  ELSE IF currentMiles < 10000
  THEN [name |-> "Premium", miles |-> 10000, remaining |-> 10000 - currentMiles]
  ELSE IF currentMiles < 15000
  THEN [name |-> "Exclusive", miles |-> 15000, remaining |-> 15000 - currentMiles]
  ELSE NoNextTier

NoEval == [fn |-> "", args |-> <<>>, result |-> <<>>]

\* distances around the thresholds, in hundredths of a mile
Mileages == {0, 1, 4999, 5000, 5001, 9999, 10000, 10001, 14999, 15000, 15001, 30000}

\* start coordinates around the edges of the region, in hundredths of a degree
Latitudes == {3879, 3880, 3881, 3900, 3919, 3920, 3921, 3930}
Longitudes == {-7751, -7750, -7749, -7700, -7691, -7690, -7689}

\* a run of the provider with the start coordinates given
RunAt(start_latlng) ==
  [id |-> 201, athlete |-> "u1", type |-> "Run", sport_type |-> "Run",
   start_date |-> StartTime, uploaded |-> StartTime, distance |-> 5000,
   start_latlng |-> start_latlng]

\* source distances in whole meters: small ones, the mile, ten kilometers,
\* and the ones below a thousand kilometers whose product comes nearest to
\* half a hundredth of a mile from either side
Meters == {0, 8, 9, 80, 81, 1609, 1610, 10000, 15000, 20000,
           150868, 162407, 800496, 812035}

\* the digits of the factor 0.000621371
Factor == <<6, 2, 1, 3, 7, 1>>

\* meters * (the first k digits of the factor), as a numeric of two limbs
\* of seven digits
RECURSIVE TimesFactor(_, _)
TimesFactor(meters, k) ==
  IF k = 0 THEN [hi |-> 0, lo |-> 0]
  ELSE LET q == TimesFactor(meters, k - 1)
           lo == q.lo * 10 + meters * Factor[k]
       IN  [hi |-> q.hi * 10 + (lo \div 10000000), lo |-> lo % 10000000]

\* ROUND((meters * 0.000621371)::numeric, 2), in hundredths of a mile: the
\* exact product, rounded half away from zero
meters_to_miles(meters) ==
  LET product == TimesFactor(meters, Len(Factor))
  IN  product.hi + (IF product.lo >= 5000000 THEN 1 ELSE 0)

Evals ==
  {[fn |-> "calculate_access_tier", args |-> <<m1, m2>>, result |-> <<>>] :
     m1 \in Mileages, m2 \in Mileages}
  \cup
  {[fn |-> "meters_to_miles", args |-> <<m1, m2>>, result |-> <<>>] :
     m1 \in Meters, m2 \in Meters}
  \cup
  {[fn |-> "insert", args |-> <<RunAt(c)>>, result |-> <<>>] :
     c \in {<<>>} \cup (Latitudes \X Longitudes)}

\* calculate_access_tier of two distances, and getNextTier of the first
ApplyTier ==
  /\ eval.fn = "calculate_access_tier"
  /\ eval.result = <<>>
  /\ eval' = [eval EXCEPT !.result =
                <<calculate_access_tier(eval.args[1]),
                  calculate_access_tier(eval.args[2]),
                  getNextTier(eval.args[1])>>]
  /\ UNCHANGED <<now, users, strava, activities, mileage_summary, drop_access,
                 sync, grant, synced, granted, recalculated, oauth, recalc>>

\* the handler's distanceMiles and the store's meters_to_miles of two
\* source distances
ApplyMiles ==
  /\ eval.fn = "meters_to_miles"
  /\ eval.result = <<>>
  /\ eval' = [eval EXCEPT !.result =
                <<distanceMiles(eval.args[1]), meters_to_miles(eval.args[1]),
                  distanceMiles(eval.args[2]), meters_to_miles(eval.args[2])>>]
  /\ UNCHANGED <<now, users, strava, activities, mileage_summary, drop_access,
                 sync, grant, synced, granted, recalculated, oauth, recalc>>

\* the insert of the handler's loop for one activity of the provider
StoreActivity ==
  /\ eval.fn = "insert"
  /\ eval.result = <<>>
  /\ LET res == InsertActivity(activities, ActivityRow("u1", eval.args[1]))
     IN  /\ activities' = res.table
         /\ eval' = [eval EXCEPT !.result = <<res.error>>]
  /\ UNCHANGED <<now, users, strava, mileage_summary, drop_access,
                 sync, grant, synced, granted, recalculated, oauth, recalc>>

----------------------------------------------------------------------------
\* The clock

Tick ==
  /\ now < MaxTime
  /\ now' = now + 1
  /\ UNCHANGED <<users, strava, activities, mileage_summary, drop_access, sync, grant>>

----------------------------------------------------------------------------
\* History of the sync invocations: for each user the horizon and inserted
\* count of the last invocation that answered 200 (`last`, empty or one
\* record); for each process what `last` held for its user when its current
\* invocation began (`earlier`), and the horizon it fetched with and what the
\* provider then held of the athlete after that horizon (`after`, `held`).

NoRun == [after |-> NULL, held |-> {}, earlier |-> {}]

NotSynced == [last |-> [u \in Users |-> {}], run |-> [p \in SyncProcs |-> NoRun]]

Began(p) == sync[p].pc = "idle" /\ sync'[p] # sync[p]
Fetched(p) == sync[p].pc = "fetch" /\ sync'[p].pc \in {"insert", "stamp"}
Answered200(p) == sync[p].pc = "recalc" /\ sync'[p].pc = "idle"

SyncHistory ==
  synced' =
    [last |-> [u \in Users |->
       IF \E p \in SyncProcs : Answered200(p) /\ sync[p].userId = u
       THEN {[after |-> sync[p].after, inserted |-> sync[p].insertedCount] :
               p \in {q \in SyncProcs : Answered200(q) /\ sync[q].userId = u}}
       ELSE synced.last[u]],
     run |-> [p \in SyncProcs |->
       IF Began(p)
       THEN [NoRun EXCEPT !.earlier = IF sync'[p].userId \in Users
                                      THEN synced.last[sync'[p].userId] ELSE {}]
       ELSE IF Fetched(p)
       THEN [synced.run[p] EXCEPT
               !.after = sync[p].after,
               !.held = Held(sync[p].accessToken.athlete, sync[p].after, now)]
       ELSE synced.run[p]]]

\* History of the grant calls: the drops a call has gone through from its
\* first statement to its return with no current-month distance written
\* differently since it began (`settled`); for each process the drop's rows
\* when its call began (`before`, kept past the return), whether the drop
\* was settled then (`repeat`), whether every current-month distance has
\* stayed as it was since (`calm`), and the users whose current-month
\* distance has been at or above the drop's basic threshold in every state
\* since (`above`, kept past the return).

NoCall == [before |-> {}, repeat |-> FALSE, calm |-> FALSE, above |-> {}]

NotGranted == [settled |-> {}, call |-> [g \in GrantProcs |-> NoCall]]

Called(g) == grant[g].pc = "idle" /\ grant'[g].pc = "exclusive"
Raised(g) == grant[g].pc = "idle" /\ grant'[g].pc = "idle" /\ grant'[g] # grant[g]
Returned(g) == grant[g].pc = "count" /\ grant'[g].pc = "idle"
Moved == Miles(mileage_summary') # Miles(mileage_summary)

GrantHistory ==
  granted' =
    [settled |->
       IF Moved THEN {}
       ELSE granted.settled \cup
              {grant[g].p_drop_id :
                 g \in {h \in GrantProcs : Returned(h) /\ granted.call[h].calm}},
     call |-> [g \in GrantProcs |->
       IF Called(g)
       THEN [before |-> DropRows(drop_access, grant'[g].p_drop_id),
             repeat |-> grant'[g].p_drop_id \in granted.settled,
             calm |-> TRUE,
             above |-> AtOrAbove(mileage_summary,
                                 grant'[g].v_drop.required_miles_basic)]
       ELSE IF Raised(g) THEN NoCall
       ELSE IF Returned(g)
       THEN [NoCall EXCEPT !.before = granted.call[g].before,
                           !.above = granted.call[g].above]
       ELSE IF Moved /\ grant[g].pc # "idle"
       THEN [granted.call[g] EXCEPT
               !.calm = FALSE,
               !.above = @ \cap AtOrAbove(mileage_summary',
                                          grant[g].v_drop.required_miles_basic)]
       ELSE granted.call[g]]]

\* History of the recalculations: for each user the summary row the latest
\* recalculation found (`before`, empty or one row), the number of the
\* user's activity records it scanned (`seen`), and whether that number
\* differed from what the recalculation before it had scanned (`added`).
\* U holds the users a step recalculates.

NotRecalculated == [u \in Users |-> [before |-> <<>>, seen |-> -1, added |-> FALSE]]

Records(u) ==
  LET rows == {r \in BagToSet(activities) : r.user_id = u}
  IN  SumOver(rows, [r \in rows |-> CopiesIn(r, activities)])

RecalcHistory(U) ==
  recalculated' =
    [u \in Users |->
       IF u \in U
       THEN [before |-> IF u \in DOMAIN mileage_summary
                        THEN <<mileage_summary[u]>> ELSE <<>>,
             seen |-> Records(u),
             added |-> recalculated[u].seen # Records(u)]
       ELSE recalculated[u]]

----------------------------------------------------------------------------
\* u1 has just connected the provider (first credentials, nothing synced);
\* u2 has an account and no connection.

Start ==
  /\ now = StartTime
  /\ users = [u \in Users |->
       IF u = "u1"
       THEN [strava_access_token |-> Token("u1", 1, StartTime + TokenLife),
             strava_refresh_token |-> Token("u1", 1, 0),
             token_expires_at |-> StartTime + TokenLife,
             connected_at |-> StartTime,
             last_synced_at |-> NULL]
       ELSE NoUser]
  /\ strava = [a \in {"u1"} |-> [serial |-> 1]]
  /\ activities = EmptyBag
  /\ mileage_summary = [u \in {} |-> NULL]
  /\ drop_access = EmptyBag
  /\ sync = [p \in SyncProcs |-> Idle]
  /\ grant = [g \in GrantProcs |-> NotCalled]
  /\ synced = NotSynced
  /\ granted = NotGranted
  /\ recalculated = NotRecalculated
  /\ oauth = [o \in OAuthProcs |-> NotAsked]
  /\ recalc = [r \in RecalcProcs |-> NotRecalculating]

Init == Start /\ eval = NoEval

----------------------------------------------------------------------------
\* What a step leaves in the histories.

KeepSyncHistory == SyncHistory /\ UNCHANGED <<granted, recalculated, oauth, eval, recalc>>
KeepGrantHistory == GrantHistory /\ UNCHANGED <<synced, recalculated, oauth, eval, recalc>>
KeepRecalcHistory(U) == RecalcHistory(U) /\ UNCHANGED <<synced, granted, oauth, eval, recalc>>
KeepNoHistory == UNCHANGED <<synced, granted, recalculated, oauth, eval, recalc>>
KeepConnection == UNCHANGED <<synced, granted, recalculated, eval, recalc>>
KeepRecalcCall == UNCHANGED <<synced, granted, recalculated, oauth, eval>>

\* The users a request may name: the stored ones and one that is not.
Requested == Users \cup {"u0"}

\* One importer for any user, the store and the provider free to fail, and
\* recalculations on the side; sync history kept.
Next ==
  \/ Tick /\ KeepSyncHistory
  \/ \E userId \in Requested, ok \in BOOLEAN :
       SyncSelectUser("s1", userId, ok) /\ KeepSyncHistory
  \/ \E ok \in BOOLEAN, accept \in BOOLEAN :
       SyncRefresh("s1", ok, accept) /\ KeepSyncHistory
  \/ \E ok \in BOOLEAN : SyncPersistTokens("s1", ok) /\ KeepSyncHistory
  \/ \E ok \in BOOLEAN : SyncFetch("s1", ok) /\ KeepSyncHistory
  \/ \E ok \in BOOLEAN : SyncInsert("s1", ok) /\ KeepSyncHistory
  \/ \E ok \in BOOLEAN : SyncStamp("s1", ok) /\ KeepSyncHistory
  \/ \E ok \in BOOLEAN : SyncRecalc("s1", ok) /\ KeepSyncHistory
  \/ \E u \in Users : Recalculate(u) /\ KeepSyncHistory

Spec == Init /\ [][Next]_vars

\* Two importers for u1 at a time, the store and the provider answering.
NextSync ==
  \/ Tick /\ KeepNoHistory
  \/ \E p \in SyncProcs, userId \in {"u1"}, ok \in {TRUE} :
       SyncSelectUser(p, userId, ok) /\ KeepNoHistory
  \/ \E p \in SyncProcs, ok \in {TRUE}, accept \in {TRUE} :
       SyncRefresh(p, ok, accept) /\ KeepNoHistory
  \/ \E p \in SyncProcs, ok \in {TRUE} : SyncPersistTokens(p, ok) /\ KeepNoHistory
  \/ \E p \in SyncProcs, ok \in {TRUE} : SyncFetch(p, ok) /\ KeepNoHistory
  \/ \E p \in SyncProcs, ok \in {TRUE} : SyncInsert(p, ok) /\ KeepNoHistory
  \/ \E p \in SyncProcs, ok \in {TRUE} : SyncStamp(p, ok) /\ KeepNoHistory
  \/ \E p \in SyncProcs, ok \in {TRUE} : SyncRecalc(p, ok) /\ KeepNoHistory

SpecSync == Init /\ [][NextSync]_vars

\* One importer for u1, the store and the provider answering, and
\* recalculations on the side; recalculation history kept.
NextRecalc ==
  \/ Tick /\ KeepRecalcHistory({})
  \/ \E userId \in {"u1"}, ok \in {TRUE} :
       SyncSelectUser("s1", userId, ok) /\ KeepRecalcHistory({})
  \/ \E ok \in {TRUE}, accept \in {TRUE} :
       SyncRefresh("s1", ok, accept) /\ KeepRecalcHistory({})
  \/ \E ok \in {TRUE} : SyncPersistTokens("s1", ok) /\ KeepRecalcHistory({})
  \/ \E ok \in {TRUE} : SyncFetch("s1", ok) /\ KeepRecalcHistory({})
  \/ \E ok \in {TRUE} : SyncInsert("s1", ok) /\ KeepRecalcHistory({})
  \/ \E ok \in {TRUE} : SyncStamp("s1", ok) /\ KeepRecalcHistory({})
  \/ \E ok \in {TRUE} : SyncRecalc("s1", ok) /\ KeepRecalcHistory({sync["s1"].userId})
  \/ \E u \in Users : Recalculate(u) /\ KeepRecalcHistory({u})

SpecRecalc == Init /\ [][NextRecalc]_vars

\* One grant call at a time beside an importer for u1 whose store and
\* provider answer, and recalculations on the side; grant history kept.
NextGrant ==
  \/ Tick /\ KeepGrantHistory
  \/ \E userId \in {"u1"}, ok \in {TRUE} :
       SyncSelectUser("s1", userId, ok) /\ KeepGrantHistory
  \/ \E ok \in {TRUE}, accept \in {TRUE} :
       SyncRefresh("s1", ok, accept) /\ KeepGrantHistory
  \/ \E ok \in {TRUE} : SyncPersistTokens("s1", ok) /\ KeepGrantHistory
  \/ \E ok \in {TRUE} : SyncFetch("s1", ok) /\ KeepGrantHistory
  \/ \E ok \in {TRUE} : SyncInsert("s1", ok) /\ KeepGrantHistory
  \/ \E ok \in {TRUE} : SyncStamp("s1", ok) /\ KeepGrantHistory
  \/ \E ok \in {TRUE} : SyncRecalc("s1", ok) /\ KeepGrantHistory
  \/ \E u \in Users : Recalculate(u) /\ KeepGrantHistory
  \/ \E p_drop_id \in DropIds : GrantCall("g1", p_drop_id) /\ KeepGrantHistory
  \/ GrantExclusive("g1") /\ KeepGrantHistory
  \/ GrantPremium("g1") /\ KeepGrantHistory
  \/ GrantBasic("g1") /\ KeepGrantHistory
  \/ GrantReturn("g1") /\ KeepGrantHistory

SpecGrant == Init /\ [][NextGrant]_vars

\* Two grant calls at a time beside the same importer and the
\* recalculations of u1; grant history kept.
NextGrants ==
  \/ Tick /\ KeepGrantHistory
  \/ \E userId \in {"u1"}, ok \in {TRUE} :
       SyncSelectUser("s1", userId, ok) /\ KeepGrantHistory
  \/ \E ok \in {TRUE}, accept \in {TRUE} :
       SyncRefresh("s1", ok, accept) /\ KeepGrantHistory
  \/ \E ok \in {TRUE} : SyncPersistTokens("s1", ok) /\ KeepGrantHistory
  \/ \E ok \in {TRUE} : SyncFetch("s1", ok) /\ KeepGrantHistory
  \/ \E ok \in {TRUE} : SyncInsert("s1", ok) /\ KeepGrantHistory
  \/ \E ok \in {TRUE} : SyncStamp("s1", ok) /\ KeepGrantHistory
  \/ \E ok \in {TRUE} : SyncRecalc("s1", ok) /\ KeepGrantHistory
  \/ Recalculate("u1") /\ KeepGrantHistory
  \/ \E g \in GrantProcs, p_drop_id \in DropIds : GrantCall(g, p_drop_id) /\ KeepGrantHistory
  \/ \E g \in GrantProcs : GrantExclusive(g) /\ KeepGrantHistory
  \/ \E g \in GrantProcs : GrantPremium(g) /\ KeepGrantHistory
  \/ \E g \in GrantProcs : GrantBasic(g) /\ KeepGrantHistory
  \/ \E g \in GrantProcs : GrantReturn(g) /\ KeepGrantHistory

SpecGrants == Init /\ [][NextGrants]_vars

\* the user who asks to connect: the one not connected at the start
Connecting == {"u2"}

\* One connection beside one importer; the code exchange, the refresh and
\* the writes of the credentials are free to fail; no history kept.
NextOAuth ==
  \/ Tick /\ KeepNoHistory
  \/ \E userId \in Users :
       SyncSelectUser("s1", userId, TRUE) /\ KeepNoHistory
  \/ \E ok \in BOOLEAN, accept \in BOOLEAN :
       SyncRefresh("s1", ok, accept) /\ KeepNoHistory
  \/ \E ok \in BOOLEAN : SyncPersistTokens("s1", ok) /\ KeepNoHistory
  \/ SyncFetch("s1", TRUE) /\ KeepNoHistory
  \/ SyncInsert("s1", TRUE) /\ KeepNoHistory
  \/ SyncStamp("s1", TRUE) /\ KeepNoHistory
  \/ SyncRecalc("s1", TRUE) /\ KeepNoHistory
  \/ \E userId \in Connecting, code \in Codes :
       OAuthExchange("o1", userId, code) /\ KeepConnection
  \/ \E ok \in BOOLEAN : OAuthUpdate("o1", ok) /\ KeepConnection

SpecOAuth == Init /\ [][NextOAuth]_vars

\* One importer for u1 whose store and provider answer, beside a
\* recalculation of u1 called on its own and run as the store runs it.
NextRace ==
  \/ Tick /\ KeepNoHistory
  \/ SyncSelectUser("s1", "u1", TRUE) /\ KeepNoHistory
  \/ SyncRefresh("s1", TRUE, TRUE) /\ KeepNoHistory
  \/ SyncPersistTokens("s1", TRUE) /\ KeepNoHistory
  \/ SyncFetch("s1", TRUE) /\ KeepNoHistory
  \/ SyncInsert("s1", TRUE) /\ KeepNoHistory
  \/ SyncStamp("s1", TRUE) /\ KeepNoHistory
  \/ SyncRecalc("s1", TRUE) /\ KeepNoHistory
  \/ RecalcSelect("r1", "u1") /\ KeepRecalcCall
  \/ RecalcUpsert("r1") /\ KeepRecalcCall

SpecRace == Init /\ [][NextRace]_vars

\* The kinds of activity: u2 connected to a provider account (a3) that
\* holds activities of every pairing of the two kind fields, imported by one
\* importer whose store and provider answer.
InitKinds ==
  /\ now = StartTime
  /\ users = [u \in Users |->
       LET athlete == IF u = "u2" THEN "a3" ELSE u
       IN  [strava_access_token |-> Token(athlete, 1, StartTime + TokenLife),
            strava_refresh_token |-> Token(athlete, 1, 0),
            token_expires_at |-> StartTime + TokenLife,
            connected_at |-> StartTime,
            last_synced_at |-> NULL]]
  /\ strava = [a \in {"u1", "a3"} |-> [serial |-> 1]]
  /\ activities = EmptyBag
  /\ mileage_summary = [u \in {} |-> NULL]
  /\ drop_access = EmptyBag
  /\ sync = [p \in SyncProcs |-> Idle]
  /\ grant = [g \in GrantProcs |-> NotCalled]
  /\ synced = NotSynced
  /\ granted = NotGranted
  /\ recalculated = NotRecalculated
  /\ oauth = [o \in OAuthProcs |-> NotAsked]
  /\ recalc = [r \in RecalcProcs |-> NotRecalculating]
  /\ eval = NoEval

NextKinds ==
  \/ Tick /\ KeepNoHistory
  \/ SyncSelectUser("s1", "u2", TRUE) /\ KeepNoHistory
  \/ SyncRefresh("s1", TRUE, TRUE) /\ KeepNoHistory
  \/ SyncPersistTokens("s1", TRUE) /\ KeepNoHistory
  \/ SyncFetch("s1", TRUE) /\ KeepNoHistory
  \/ SyncInsert("s1", TRUE) /\ KeepNoHistory
  \/ SyncStamp("s1", TRUE) /\ KeepNoHistory
  \/ SyncRecalc("s1", TRUE) /\ KeepNoHistory

SpecKinds == InitKinds /\ [][NextKinds]_vars

\* The end-to-end scenario: both users connected, u2 (three runs of 20, 15
\* and 10 km at the provider, none stored) imported by one importer whose
\* store and provider answer, and grant calls for the drop d2.
InitScenario ==
  /\ now = StartTime
  /\ users = [u \in Users |->
       [strava_access_token |-> Token(u, 1, StartTime + TokenLife),
        strava_refresh_token |-> Token(u, 1, 0),
        token_expires_at |-> StartTime + TokenLife,
        connected_at |-> StartTime,
        last_synced_at |-> NULL]]
  /\ strava = [a \in Users |-> [serial |-> 1]]
  /\ activities = EmptyBag
  /\ mileage_summary = [u \in {} |-> NULL]
  /\ drop_access = EmptyBag
  /\ sync = [p \in SyncProcs |-> Idle]
  /\ grant = [g \in GrantProcs |-> NotCalled]
  /\ synced = NotSynced
  /\ granted = NotGranted
  /\ recalculated = NotRecalculated
  /\ oauth = [o \in OAuthProcs |-> NotAsked]
  /\ recalc = [r \in RecalcProcs |-> NotRecalculating]
  /\ eval = NoEval

NextScenario ==
  \/ Tick /\ KeepNoHistory
  \/ SyncSelectUser("s1", "u2", TRUE) /\ KeepNoHistory
  \/ SyncRefresh("s1", TRUE, TRUE) /\ KeepNoHistory
  \/ SyncPersistTokens("s1", TRUE) /\ KeepNoHistory
  \/ SyncFetch("s1", TRUE) /\ KeepNoHistory
  \/ SyncInsert("s1", TRUE) /\ KeepNoHistory
  \/ SyncStamp("s1", TRUE) /\ KeepNoHistory
  \/ SyncRecalc("s1", TRUE) /\ KeepNoHistory
  \/ GrantCall("g1", "d2") /\ KeepNoHistory
  \/ GrantExclusive("g1") /\ KeepNoHistory
  \/ GrantPremium("g1") /\ KeepNoHistory
  \/ GrantBasic("g1") /\ KeepNoHistory
  \/ GrantReturn("g1") /\ KeepNoHistory

SpecScenario == InitScenario /\ [][NextScenario]_vars

\* The functions evaluated on the arguments drawn at the start.
InitFunctions == Start /\ eval \in Evals

NextFunctions ==
  \/ ApplyTier
  \/ ApplyMiles
  \/ StoreActivity

SpecFunctions == InitFunctions /\ [][NextFunctions]_vars

----------------------------------------------------------------------------
\* Properties

Stored(id) == \E r \in BagToSet(activities) : r.strava_activity_id = id

\* the sync invocation p takes this step
Steps(p) == sync'[p] # sync[p]

\* C1: the activities table never holds two rows with one
\* strava_activity_id, whatever the overlap of the sync invocations of a
\* user; an insert of an id that is stored adds no row, is counted as
\* skipped and leaves the invocation running.
C1_OneRowPerExternalId ==
  /\ [](\A r, q \in BagToSet(activities) :
          /\ CopiesIn(r, activities) = 1
          /\ (r.strava_activity_id = q.strava_activity_id => r = q))
  /\ [][\A p \in SyncProcs :
          (/\ Steps(p)
           /\ sync[p].pc = "insert"
           /\ Stored(sync[p].runActivities[sync[p].i].id))
          => /\ activities' = activities
             /\ sync'[p].skippedCount = sync[p].skippedCount + 1
             /\ sync'[p].insertedCount = sync[p].insertedCount
             /\ sync'[p].pc \in {"insert", "stamp"}]_vars

\* two invocations under way for one user, one of which found stored what the
\* other had inserted since both had fetched
C1_Witness ==
  \E p, q \in SyncProcs :
    /\ p # q
    /\ sync[p].userId = sync[q].userId
    /\ sync[p].pc \in {"insert", "stamp"}
    /\ sync[q].pc \in {"insert", "stamp"}
    /\ sync[p].skippedCount > 0
    /\ sync[q].insertedCount > 0

\* C2: a drop_access row, once stored, stays as it is: no step of a sync
\* invocation, a recalculation or a grant call removes it or changes its
\* access_tier or its mileage_at_qualification.
C2_GrantFrozen ==
  [][\A r \in BagToSet(drop_access) :
       \A q \in BagToSet(drop_access') :
         (q.drop_id = r.drop_id /\ q.user_id = r.user_id) => q = r]_vars
  /\ [][\A r \in BagToSet(drop_access) : r \in BagToSet(drop_access')]_vars

\* a grant call has run its three inserts over a user whose row was stored
\* before the call and whose current-month distance has since moved to
\* another tier of the drop
C2_Witness ==
  \E g \in GrantProcs : \E r \in granted.call[g].before :
    /\ grant[g].pc = "count"
    /\ r \in BagToSet(drop_access)
    /\ r.user_id \in DOMAIN mileage_summary
    /\ mileage_summary[r.user_id].current_month_miles # r.mileage_at_qualification
    /\ mileage_summary[r.user_id].current_month_miles
         >= grant[g].v_drop.required_miles_basic
    /\ r.access_tier = "premium"
    /\ mileage_summary[r.user_id].current_month_miles
         < grant[g].v_drop.required_miles_premium

\* C3: every mileage_summary row has the access_tier of its
\* current_month_miles: exclusive from 150 miles, premium from 100, basic
\* from 50, none below.
C3_TierOfCurrentMonth ==
  \A u \in DOMAIN mileage_summary :
    LET m == mileage_summary[u].current_month_miles
        tier == mileage_summary[u].access_tier
    IN  /\ (m >= 15000) <=> (tier = "exclusive")
        /\ (m >= 10000 /\ m < 15000) <=> (tier = "premium")
        /\ (m >= 5000 /\ m < 10000) <=> (tier = "basic")
        /\ (m < 5000) <=> (tier = "none")

\* the row of a user with distance in the month before stands at exclusive,
\* beside a row at none
C3_Witness ==
  /\ DOMAIN mileage_summary = Users
  /\ mileage_summary["u1"].access_tier = "exclusive"
  /\ mileage_summary["u1"].last_month_miles > 0
  /\ mileage_summary["u2"].access_tier = "none"

\* C4 (as the specification states it): once a sync invocation has answered
\* 200 with every insert counted, each run activity the provider held for the
\* athlete after the invocation's horizon when it fetched is stored.
C4_AllHeldStored ==
  \A p \in SyncProcs :
    (/\ sync[p].pc = "idle"
     /\ sync[p].response.status = 200
     /\ sync[p].response.inserted + sync[p].response.skipped
          = sync[p].response.total)
    => \A a \in synced.run[p].held : IsRun(a) => Stored(a.id)

\* C5 (as the specification states it): no external id is stored twice, and
\* an invocation that answers 200, begun after an invocation for the same
\* user had answered 200 and fetching from a horizon no later than that
\* one's, counts as skipped at least what that one counted as inserted.
C5_SkippedCoversInserted ==
  /\ \A r, q \in BagToSet(activities) :
       /\ CopiesIn(r, activities) = 1
       /\ (r.strava_activity_id = q.strava_activity_id => r = q)
  /\ \A p \in SyncProcs :
       (/\ sync[p].pc = "idle"
        /\ sync[p].response.status = 200)
       => \A e \in synced.run[p].earlier :
            synced.run[p].after <= e.after
            => sync[p].response.skipped >= e.inserted

\* C6 (as the specification states it): once a grant call has returned its
\* count, each user whose current_month_miles was at or above the drop's
\* required_miles_basic in every state from the call to the return has a
\* drop_access row for the drop.
C6_EveryQualifierGranted ==
  \A g \in GrantProcs :
    (grant[g].pc = "idle" /\ grant[g].result >= 0)
    => \A u \in granted.call[g].above :
         \E r \in BagToSet(drop_access) :
           r.drop_id = grant[g].p_drop_id /\ r.user_id = u

\* C7: a row that a step adds to drop_access is of a user with a
\* mileage_summary row; its mileage_at_qualification is the user's
\* current_month_miles m in the state the inserting statement reads, m is at
\* least the drop's required_miles_basic, and its access_tier is exclusive
\* for m >= required_miles_exclusive, premium for m from
\* required_miles_premium up to there, basic below.
C7_TierAtGrant ==
  [][\A r \in BagToSet(drop_access') :
       r \notin BagToSet(drop_access)
       => /\ r.drop_id \in DOMAIN drops
          /\ r.user_id \in DOMAIN mileage_summary
          /\ LET m == mileage_summary[r.user_id].current_month_miles
                 d == drops[r.drop_id]
             IN  /\ r.mileage_at_qualification = m
                 /\ m >= d.required_miles_basic
                 /\ r.access_tier =
                      IF m >= d.required_miles_exclusive THEN "exclusive"
                      ELSE IF m >= d.required_miles_premium THEN "premium"
                      ELSE "basic"]_vars

\* a call has returned having granted u1 and passed over u2, whose summary
\* stands below the basic threshold
C7_Witness ==
  /\ grant["g1"].pc = "idle"
  /\ grant["g1"].result = 1
  /\ DOMAIN mileage_summary = Users
  /\ mileage_summary["u2"].current_month_miles
       < drops[grant["g1"].p_drop_id].required_miles_basic
  /\ \E r \in BagToSet(drop_access) :
       r.user_id = "u1" /\ r.access_tier = "exclusive"
  /\ \A r \in BagToSet(drop_access) : r.user_id # "u2"

\* C8: drop_access never holds two rows of one (drop_id, user_id), whatever
\* the overlap of the grant calls; a call raises only for a drop that is not
\* stored; and a call for a drop that a call had gone through, with no
\* current_month_miles written differently from the start of that call on,
\* leaves the rows of the drop as it found them.
C8_GrantCallsIdempotent ==
  /\ \A r, q \in BagToSet(drop_access) :
       /\ CopiesIn(r, drop_access) = 1
       /\ (r.drop_id = q.drop_id /\ r.user_id = q.user_id) => r = q
  /\ \A g \in GrantProcs :
       /\ grant[g].result = -1 => grant[g].p_drop_id \notin DOMAIN drops
       /\ (/\ grant[g].pc # "idle"
           /\ granted.call[g].repeat
           /\ granted.call[g].calm)
          => DropRows(drop_access, grant[g].p_drop_id) = granted.call[g].before

\* a repeated call has run its three inserts over a drop with a row, beside
\* another call under way for the same drop
C8_Witness ==
  \E g, h \in GrantProcs :
    /\ g # h
    /\ grant[g].pc = "count"
    /\ granted.call[g].repeat
    /\ granted.call[g].calm
    /\ granted.call[g].before # {}
    /\ grant[h].pc \in {"premium", "basic", "count"}
    /\ grant[h].p_drop_id = grant[g].p_drop_id

\* calendar month and calendar year of an instant, counted from instant 0
MonthOf(t) == t \div TicksPerMonth
YearOf(t) == t \div (TicksPerMonth * MonthsPerYear)

\* the sum of distance_miles over the in-region activity records of u that
\* are dated in a month and year the tests admit
InRegionMiles(u, month(_), year(_)) ==
  LET rows == {r \in BagToSet(activities) :
                 /\ r.user_id = u
                 /\ r.is_dc_metro_area
                 /\ month(MonthOf(r.activity_date))
                 /\ year(YearOf(r.activity_date))}
  IN  SumOver(rows, [r \in rows |-> CopiesIn(r, activities) * r.distance_miles])

Substance(row) ==
  <<row.current_month_miles, row.last_month_miles, row.current_year_miles,
    row.total_miles, row.total_activities, row.dc_activities,
    row.last_activity_date, row.access_tier>>

\* the latest recalculation of u found a row and scanned the records that
\* the one before it had scanned
Repeated(u) ==
  /\ u \in DOMAIN mileage_summary
  /\ recalculated[u].before # <<>>
  /\ ~recalculated[u].added

\* C10 (as the specification states it): a recalculation of a user that
\* follows one with no activity record added in between leaves the
\* distances, counts, tier and last activity date of the row as they were.
C10_RecalculateIdempotent ==
  \A u \in Users :
    Repeated(u)
    => Substance(mileage_summary[u]) = Substance(recalculated[u].before[1])

\* C10 (amended): a recalculation of a user that follows one of the same
\* calendar month with no activity record added in between leaves the
\* distances, counts, tier and last activity date of the row as they were;
\* last_calculated_at and updated_at take the time of the call.
C10_RecalculateIdempotentInMonth ==
  \A u \in Users :
    (/\ Repeated(u)
     /\ MonthOf(recalculated[u].before[1].last_calculated_at)
          = MonthOf(mileage_summary[u].last_calculated_at))
    => /\ Substance(mileage_summary[u]) = Substance(recalculated[u].before[1])
       /\ mileage_summary[u].last_calculated_at >=
            recalculated[u].before[1].last_calculated_at
       /\ mileage_summary[u].updated_at = mileage_summary[u].last_calculated_at

\* the second of two recalculations of one month, at a later instant, over
\* records in the region
C10_Witness ==
  /\ Repeated("u1")
  /\ MonthOf(recalculated["u1"].before[1].last_calculated_at)
       = MonthOf(mileage_summary["u1"].last_calculated_at)
  /\ recalculated["u1"].before[1].last_calculated_at
       < mileage_summary["u1"].last_calculated_at
  /\ mileage_summary["u1"].total_miles > 0

\* C11: the tier is a total step function of the distance: none below 50
\* miles, basic from 50 and below 100, premium from 100 and below 150,
\* exclusive from 150, each threshold belonging to the higher tier; it never
\* falls when the distance rises; and the dashboard's next tier is the one
\* just above it.
TierRank(tier) ==
  CASE tier = "none" -> 0
    [] tier = "basic" -> 1
    [] tier = "premium" -> 2
    [] tier = "exclusive" -> 3

C11_TierStepFunction ==
  (eval.fn = "calculate_access_tier" /\ eval.result # <<>>) =>
    LET m1 == eval.args[1]
        m2 == eval.args[2]
        t1 == eval.result[1]
        t2 == eval.result[2]
        next == eval.result[3]
    IN  /\ t1 \in {"none", "basic", "premium", "exclusive"}
        /\ t1 = "none" <=> m1 < 5000
        /\ t1 = "basic" <=> (5000 <= m1 /\ m1 < 10000)
        /\ t1 = "premium" <=> (10000 <= m1 /\ m1 < 15000)
        /\ t1 = "exclusive" <=> 15000 <= m1
        /\ m1 <= m2 => TierRank(t1) <= TierRank(t2)
        /\ next.name = "Basic" <=> t1 = "none"
        /\ next.name = "Premium" <=> t1 = "basic"
        /\ next.name = "Exclusive" <=> t1 = "premium"
        /\ next = NoNextTier <=> t1 = "exclusive"
        /\ next # NoNextTier =>
             /\ next.remaining = next.miles - m1
             /\ next.remaining > 0
             /\ calculate_access_tier(m1 + next.remaining) # t1

C11_Witness ==
  /\ eval.fn = "calculate_access_tier"
  /\ eval.args = <<9999, 10000>>
  /\ eval.result # <<>>
  /\ eval.result[1] = "basic"
  /\ eval.result[2] = "premium"

\* C12: when the refresh exchange of an import fails (the importer leaves its
\* refresh step and the provider has issued nothing), the stored access
\* credential, refresh credential and expiry are as before, the caller
\* receives the failure, no activity has been fetched or written, nothing
\* else is changed, and the stored refresh credential is still the one the
\* failed call used and is again due for a refresh, so that a later
\* invocation retries with it.
C12_FailedRefreshKeepsCredential ==
  [][\A p \in SyncProcs :
       (sync[p].pc = "refresh" /\ sync'[p] # sync[p] /\ strava' = strava) =>
         LET userId == sync[p].userId
         IN  /\ sync'[p].pc = "idle"
             /\ sync'[p].response =
                  ErrorResponse(500, "Failed to refresh Strava token")
             /\ users' = users
             /\ activities' = activities
             /\ mileage_summary' = mileage_summary
             /\ synced'.run[p].after = NULL
             /\ synced'.run[p].held = {}
             /\ users'[userId].strava_refresh_token = sync[p].user.strava_refresh_token
             /\ users'[userId].strava_refresh_token # NoToken
             /\ users'[userId].strava_access_token # NoToken
             /\ now' >= users'[userId].token_expires_at]_vars

C12_Witness ==
  /\ sync["s1"].pc = "idle"
  /\ sync["s1"].userId = "u1"
  /\ sync["s1"].response = ErrorResponse(500, "Failed to refresh Strava token")
  /\ users["u1"].strava_refresh_token = Token("u1", 1, 0)
  /\ now >= users["u1"].token_expires_at
  /\ activities = EmptyBag

\* C13: in every state where the importer is about to fetch activities with
\* a credential it has just refreshed, the store holds exactly the refreshed
\* triple (access credential, refresh credential, expiry).
C13_FetchHoldsStoredTriple ==
  \A p \in SyncProcs :
    (sync[p].pc = "fetch" /\ sync[p].refreshData # NoRefreshData) =>
      LET stored == users[sync[p].userId]
          refreshData == sync[p].refreshData
      IN  /\ stored.strava_access_token = refreshData.access_token
          /\ stored.strava_refresh_token = refreshData.refresh_token
          /\ stored.token_expires_at = refreshData.expires_at

\* C14: in every reachable state each user's stored credential is either
\* empty (access and refresh credential both absent) or one triple issued
\* together in a single response of the provider: access credential, refresh
\* credential of the same issue, and the expiry of that access credential.
CoherentCredential(row) ==
  \/ /\ row.strava_access_token = NoToken
     /\ row.strava_refresh_token = NoToken
  \/ /\ row.strava_access_token # NoToken
     /\ row.strava_refresh_token # NoToken
     /\ row.strava_access_token.athlete = row.strava_refresh_token.athlete
     /\ row.strava_access_token.serial = row.strava_refresh_token.serial
     /\ row.token_expires_at = row.strava_access_token.expires_at

C14_CredentialCoherent == \A u \in Users : CoherentCredential(users[u])

C14_Witness ==
  /\ users["u1"].strava_access_token.serial = 2
  /\ users["u2"].strava_access_token.serial = 3
  /\ users["u2"].connected_at < now
  /\ oauth["o1"].pc = "idle"
  /\ sync["s1"].pc = "fetch"
  /\ sync["s1"].userId = "u2"

\* C15: when the activity fetch of an import fails, the import is aborted
\* with a failure: the failing step writes nothing (no Activity Record, no
\* last-sync time, no summary, earlier records as they were), and up to its
\* fetch an import has written nothing but the triple of a refresh it has
\* completed.
C15_FailedFetchAborts ==
  [][\A p \in SyncProcs :
       LET userId == sync[p].userId
           aborted == /\ sync'[p].pc = "idle"
                      /\ sync'[p].response =
                           ErrorResponse(500, "Failed to fetch activities from Strava")
                      /\ users' = users
                      /\ activities' = activities
                      /\ mileage_summary' = mileage_summary
                      /\ strava' = strava
       IN  /\ (/\ sync[p].pc = "fetch"
               /\ sync'[p] # sync[p]
               /\ ~AccessAccepted(sync[p].accessToken, now)) => aborted
           /\ (sync[p].pc = "fetch" /\ sync'[p].pc = "idle") => aborted
           /\ (/\ sync[p].pc \in {"idle", "refresh", "persist", "fetch"}
               /\ sync'[p] # sync[p]) =>
                /\ activities' = activities
                /\ mileage_summary' = mileage_summary
                /\ \A u \in Users :
                     /\ users'[u].last_synced_at = users[u].last_synced_at
                     /\ users'[u] # users[u] =>
                          /\ sync[p].pc = "persist"
                          /\ u = userId
                          /\ users'[u].strava_access_token =
                               sync[p].refreshData.access_token
                          /\ users'[u].strava_refresh_token =
                               sync[p].refreshData.refresh_token
                          /\ users'[u].token_expires_at =
                               sync[p].refreshData.expires_at]_vars

C15_Witness ==
  /\ sync["s1"].pc = "idle"
  /\ sync["s1"].userId = "u1"
  /\ sync["s1"].response =
       ErrorResponse(500, "Failed to fetch activities from Strava")
  /\ users["u1"].strava_access_token.serial = 2
  /\ users["u1"].last_synced_at = StartTime
  /\ now > StartTime
  /\ activities # EmptyBag

\* C16: the end of an import does not depend on the aggregator: the step that
\* calls recalculate answers 200 with the total, inserted and skipped counts
\* of the import whether or not the summary was written, and leaves the
\* inserted records and the advanced last-sync time as they are.
C16_AggregatorFailureKeepsImport ==
  [][\A p \in SyncProcs :
       (sync[p].pc = "recalc" /\ sync'[p] # sync[p]) =>
         /\ sync'[p].pc = "idle"
         /\ sync'[p].response =
              Response(200, Len(sync[p].runActivities),
                       sync[p].insertedCount, sync[p].skippedCount)
         /\ activities' = activities
         /\ users' = users]_vars

C16_Witness ==
  /\ sync["s1"].pc = "idle"
  /\ sync["s1"].userId = "u1"
  /\ sync["s1"].response.status = 200
  /\ sync["s1"].response.inserted = 3
  /\ users["u1"].last_synced_at = now
  /\ BagCardinality(activities) = 3
  /\ "u1" \notin DOMAIN mileage_summary

\* C17: an import requested for a stored user whose credential is unset ends
\* at once with the answer that the user is not connected (unless the read
\* of the user itself failed), the provider is not called and no stored
\* state changes.
C17_NotConnectedSignalled ==
  [][\A p \in SyncProcs :
       (/\ Began(p)
        /\ sync'[p].userId \in Users
        /\ \/ users[sync'[p].userId].strava_access_token = NoToken
           \/ users[sync'[p].userId].strava_refresh_token = NoToken) =>
         /\ sync'[p].response.status # 404 =>
              /\ sync'[p].pc = "idle"
              /\ sync'[p].response =
                   ErrorResponse(400, "User has not connected Strava")
         /\ users' = users
         /\ strava' = strava
         /\ activities' = activities
         /\ mileage_summary' = mileage_summary
         /\ drop_access' = drop_access]_vars

C17_Witness ==
  /\ sync["s1"].pc = "idle"
  /\ sync["s1"].userId = "u2"
  /\ sync["s1"].response = ErrorResponse(400, "User has not connected Strava")
  /\ users["u2"] = NoUser

\* C18: a user passes from not connected to connected only by the store
\* update of a successful code exchange, which writes the credential pair and
\* the expiry of the exchange and sets the connection time to the time of the
\* update; no step of an import changes the row of a user who is not
\* connected; a failed code exchange or a failed store update leaves every
\* row as it was; and no step makes the credential of a connected user
\* absent.
Connected(row) ==
  row.strava_access_token # NoToken /\ row.strava_refresh_token # NoToken

C19_ReturnsTotalGrants ==
  /\ [](\A g \in GrantProcs :
          grant[g].result >= 0 =>
            /\ grant[g].pc = "idle"
            /\ grant[g].result =
                 Cardinality(DropRows(drop_access, grant[g].p_drop_id)))
  /\ [][\A g \in GrantProcs :
          Returned(g) =>
            LET found == granted.call[g].before
                stored == DropRows(drop_access', grant[g].p_drop_id)
            IN  /\ found \subseteq stored
                /\ grant'[g].result =
                     Cardinality(found) + Cardinality(stored \ found)]_vars

\* a call that found the drop's one row and added none has returned 1
C19_Witness ==
  /\ grant["g1"].pc = "idle"
  /\ grant["g1"].result = 1
  /\ granted.call["g1"].before # {}
  /\ DropRows(drop_access, grant["g1"].p_drop_id) = granted.call["g1"].before

\* C20: every stored Activity Record's in-region flag is true exactly when
\* its start coordinates are present and lie in the box 38.8 .. 39.2 north,
\* -77.5 .. -76.9 east, edges included; (39.0, -77.0) is in the region,
\* (39.3, -77.0) is not, and a record without coordinates has the flag false.
C20_InRegionFlag ==
  \A r \in BagToSet(activities) :
    /\ r.is_dc_metro_area <=>
         /\ r.start_latitude # NULL
         /\ r.start_longitude # NULL
         /\ r.start_latitude \in 3880 .. 3920
         /\ r.start_longitude \in (0 - 7750) .. (0 - 7690)
    /\ (r.start_latitude = 3900 /\ r.start_longitude = 0 - 7700) => r.is_dc_metro_area
    /\ (r.start_latitude = 3930 /\ r.start_longitude = 0 - 7700) => ~r.is_dc_metro_area
    /\ (r.start_latitude = NULL \/ r.start_longitude = NULL) => ~r.is_dc_metro_area

\* a record that starts on a corner of the region is stored as in the region
C20_Witness ==
  /\ eval.fn = "insert"
  /\ eval.result = <<"">>
  /\ \E r \in BagToSet(activities) :
       /\ r.start_latitude = 3920
       /\ r.start_longitude = 0 - 7750
       /\ r.is_dc_metro_area

\* C21: the display distance the importer computes and stores is the source
\* distance in meters times 0.000621371 rounded to two decimal places (a
\* mile of 1609 to 1610 meters gives 1.00, 10000 meters give 6.21); it never
\* falls when the source distance rises, and it is what the store's
\* meters_to_miles gives for the same distance.
ExpectedMiles ==
  (0 :> 0) @@ (8 :> 0) @@ (9 :> 1) @@ (80 :> 5) @@ (81 :> 5) @@
  (1609 :> 100) @@ (1610 :> 100) @@ (10000 :> 621) @@ (15000 :> 932) @@
  (20000 :> 1243) @@ (150868 :> 9375) @@ (162407 :> 10091) @@
  (800496 :> 49741) @@ (812035 :> 50457)

C21_DisplayDistance ==
  (eval.fn = "meters_to_miles" /\ eval.result # <<>>) =>
    LET m1 == eval.args[1]
        m2 == eval.args[2]
    IN  /\ eval.result[1] = ExpectedMiles[m1]
        /\ eval.result[3] = ExpectedMiles[m2]
        /\ eval.result[1] = eval.result[2]
        /\ eval.result[3] = eval.result[4]
        /\ m1 <= m2 => eval.result[1] <= eval.result[3]

C21_Witness ==
  /\ eval.fn = "meters_to_miles"
  /\ eval.args = <<1609, 10000>>
  /\ eval.result = <<100, 100, 621, 621>>

\* C22: for a user without activity records, an import that fetches the
\* three runs of 20, 15 and 10 km, in the region and in the current month,
\* answers inserted = 3 and leaves a summary with a current-month distance of
\* 27.96 miles and tier none; a grant call for a drop with basic threshold 25
\* whose statements read that summary leaves one grant for the user, tier
\* basic, distance 27.96, and returns 1.
ScenarioGrant ==
  [drop_id |-> "d2", user_id |-> "u2", access_tier |-> "basic",
   mileage_at_qualification |-> 2796]

C22_EndToEnd ==
  /\ [](\A p \in SyncProcs :
          (sync[p].response.status = 200 /\ sync[p].response.total = 3) =>
            /\ sync[p].response.inserted = 3
            /\ sync[p].response.skipped = 0
            /\ BagCardinality(activities) = 3
            /\ \A r \in BagToSet(activities) :
                 r.user_id = "u2" /\ r.is_dc_metro_area
            /\ "u2" \in DOMAIN mileage_summary
            /\ mileage_summary["u2"].current_month_miles = 2796
            /\ mileage_summary["u2"].dc_activities = 3
            /\ mileage_summary["u2"].access_tier = "none")
  /\ [](\A r \in BagToSet(drop_access) :
          r = ScenarioGrant /\ CopiesIn(r, drop_access) = 1)
  /\ [][\A g \in GrantProcs :
          /\ (/\ grant[g].pc = "basic"
              /\ grant'[g].pc = "count"
              /\ "u2" \in DOMAIN mileage_summary
              /\ mileage_summary["u2"].current_month_miles = 2796) =>
               BagToSet(drop_access') = {ScenarioGrant}
          /\ (grant[g].pc = "count" /\ grant'[g].pc = "idle"
              /\ drop_access # EmptyBag) =>
               grant'[g].result = 1]_vars

C22_Witness ==
  /\ sync["s1"].response = Response(200, 3, 3, 0)
  /\ mileage_summary["u2"].access_tier = "none"
  /\ mileage_summary["u2"].current_month_miles = 2796
  /\ grant["g1"].result = 1
  /\ BagToSet(drop_access) = {ScenarioGrant}

\* C23: once every import and every recalculation of a user has completed,
\* the stored summary of the user is the rescan of the user's activity
\* records as they then are: the total in-region distance, the number of
\* records and the number of in-region records are those of the store.
C23_SummaryOfFinalRecords ==
  (/\ \A p \in SyncProcs : sync[p].pc = "idle"
   /\ \A r \in RecalcProcs : recalc[r].pc = "idle"
   /\ "u1" \in DOMAIN mileage_summary) =>
    LET rows == {r \in BagToSet(activities) : r.user_id = "u1"}
        row == mileage_summary["u1"]
    IN  /\ row.total_activities = Cardinality(rows)
        /\ row.dc_activities = Cardinality({r \in rows : r.is_dc_metro_area})
        /\ row.total_miles =
             SumOver(rows, [r \in rows |->
               IF r.is_dc_metro_area THEN r.distance_miles ELSE 0])

\* C24: an import fetches from the user's stored last-sync time when there
\* is one and otherwise from 90 days (three months) before the present; it
\* writes the last-sync time, as the present, only when it has gone through
\* every fetched activity and before the summary is touched; and the
\* recalculation it then invokes counts every record of the user in the
\* store, those this invocation inserted included.
C24_HorizonStampRecalculate ==
  [][\A p \in SyncProcs :
       LET userId == sync[p].userId
           stored == users[sync'[p].userId].last_synced_at
           rows == {r \in BagToSet(activities') : r.user_id = userId}
       IN  /\ (sync[p].pc # "fetch" /\ sync'[p].pc = "fetch") =>
                sync'[p].after = IF stored # NULL THEN stored
                                 ELSE now - 3 * TicksPerMonth
           /\ (sync'[p] # sync[p] /\ sync[p].pc # "recalc") =>
                mileage_summary' = mileage_summary
           /\ (sync'[p] # sync[p] /\ sync[p].pc # "stamp") =>
                \A u \in Users : users'[u].last_synced_at = users[u].last_synced_at
           /\ (sync[p].pc = "stamp" /\ sync'[p] # sync[p]) =>
                /\ sync[p].i = Len(sync[p].runActivities) + 1
                /\ sync[p].insertedCount + sync[p].skippedCount
                     <= Len(sync[p].runActivities)
                /\ sync'[p].pc = "recalc"
                /\ users' # users => users'[userId].last_synced_at = now
           /\ (/\ sync[p].pc = "recalc"
               /\ sync'[p] # sync[p]
               /\ mileage_summary' # mileage_summary) =>
                /\ activities' = activities
                /\ mileage_summary'[userId].total_activities = Cardinality(rows)
                /\ mileage_summary'[userId].last_calculated_at = now
                /\ \A k \in 1 .. Len(sync[p].runActivities) :
                     Stored(sync[p].runActivities[k].id) =>
                       \E r \in rows :
                         r.strava_activity_id = sync[p].runActivities[k].id]_vars

C24_Witness ==
  /\ sync["s1"].pc = "idle"
  /\ sync["s1"].response.status = 200
  /\ sync["s1"].response.inserted = 3
  /\ synced.run["s1"].after = StartTime
  /\ users["u1"].last_synced_at = now
  /\ now > StartTime
  /\ "u1" \in DOMAIN mileage_summary
  /\ mileage_summary["u1"].total_activities = BagCardinality(activities)
  /\ mileage_summary["u1"].last_calculated_at = now

\* C25: of the activities an import fetches, those it tries to store are
\* exactly the ones with one of the two kind fields equal, letter for letter,
\* to Run, TrailRun or VirtualRun: they make the reported total, each of them
\* is in the store when the import ends, and an activity with neither field
\* matching is never stored.
RunKinds == {"Run", "TrailRun", "VirtualRun"}

Counts(a) == a.type \in RunKinds \/ a.sport_type \in RunKinds

C25_RunKindsOnly ==
  /\ [](\A r \in BagToSet(activities) :
          \E a \in Catalogue : a.id = r.strava_activity_id /\ Counts(a))
  /\ [][\A p \in SyncProcs :
          /\ Fetched(p) =>
               LET page == Listing(sync[p].accessToken.athlete, sync[p].after, now)
               IN  /\ \A k \in 1 .. Len(page) :
                        Counts(page[k]) <=>
                          \E j \in 1 .. Len(sync'[p].runActivities) :
                            sync'[p].runActivities[j] = page[k]
                   /\ Len(sync'[p].runActivities)
                        = Cardinality({k \in 1 .. Len(page) : Counts(page[k])})
          /\ Answered200(p) =>
               /\ sync'[p].response.total = Len(sync[p].runActivities)
               /\ \A k \in 1 .. Len(sync[p].runActivities) :
                    Stored(sync[p].runActivities[k].id)]_vars

C25_Witness ==
  /\ sync["s1"].pc = "idle"
  /\ sync["s1"].response = Response(200, 1, 1, 0)
  /\ Stored(402) /\ Stored(403) /\ Stored(405)
  /\ ~Stored(401) /\ ~Stored(404) /\ ~Stored(406)

\* C28: in every reachable state the kind stored on every Activity Record is
\* one of the running kinds Run, TrailRun, VirtualRun, also for an activity
\* that passed the filter through one of its two kind fields only.
C28_StoredKindIsRunning ==
  \A r \in BagToSet(activities) :
    r.activity_type \in {"Run", "TrailRun", "VirtualRun"}

\* C26: every import that answers 200 reports inserted + skipped = total,
\* and an import that has advanced the last-sync time to the present has
\* every activity it filtered in the store.
C26_EveryActivityAccounted ==
  \A p \in SyncProcs :
    /\ sync[p].response.status = 200 =>
         sync[p].response.inserted + sync[p].response.skipped
           = sync[p].response.total
    /\ (sync[p].pc = "recalc" /\ users[sync[p].userId].last_synced_at = now) =>
         \A k \in 1 .. Len(sync[p].runActivities) :
           Stored(sync[p].runActivities[k].id)

\* C27: no running activity is passed over for good: an import that fetches
\* at a time when a running activity of the user's account, dated after the
\* first-sync horizon, is available at the provider either finds it in the
\* store or fetches it (the horizon of an import never lies before that of an
\* earlier one, so an activity passed over once stays out of the store).
C27_NoActivityPassedOver ==
  [][\A p \in SyncProcs :
       Fetched(p) =>
         \A a \in Catalogue :
           (/\ a.athlete = sync[p].accessToken.athlete
            /\ a.type \in {"Run", "TrailRun", "VirtualRun"}
            /\ a.uploaded < now
            /\ a.start_date > StartTime - 3 * TicksPerMonth) =>
             \/ Stored(a.id)
             \/ \E k \in 1 .. Len(sync'[p].runActivities) :
                  sync'[p].runActivities[k] = a]_vars

\* C29: when the imports of a user that refreshed the credential have all
\* completed, the stored credential triple is the one the provider issued
\* last for the account, so that the stored refresh credential is the one
\* the provider accepts at the next refresh.
C29_LatestCredentialStored ==
  (\A p \in SyncProcs : sync[p].pc = "idle") =>
    /\ users["u1"].strava_refresh_token.serial = strava["u1"].serial
    /\ users["u1"].strava_access_token.serial = strava["u1"].serial

\* C30: a step of grant_drop_access that reads mileage_summary, taken while
\* no import is in progress, finds in every row a current_month_miles equal
\* to the sum of distance_miles over the user's in-region activity records
\* dated in the calendar month of `now`, also when the calendar month has
\* advanced since the row was last calculated.
C30_CurrentMonthAtGrant ==
  [][\A g \in DOMAIN grant :
       (/\ grant[g].pc \in {"exclusive", "premium", "basic"}
        /\ grant'[g].pc # grant[g].pc
        /\ \A p \in SyncProcs : sync[p].pc = "idle") =>
         \A u \in DOMAIN mileage_summary :
           LET inMonth(x) == x = MonthOf(now)
               any(x) == TRUE
           IN  mileage_summary[u].current_month_miles = InRegionMiles(u, inMonth, any)]_vars

====
